---------------------------- MODULE Spec2Model ----------------------------
(* A model of the chat example's helper modules and of its chat route:     *)
(*   - the attachment text extractor (extractTextFromPDF and               *)
(*     processAttachments), an async computation that suspends at every    *)
(*     await on the PDF library;                                           *)
(*   - the code-language utility (the highlight.js registry, built when    *)
(*     the module is loaded, detectLanguage and highlightCode);            *)
(*   - the chat route's POST handler, which suspends at await req.json(),  *)
(*     and its getErrorMessage;                                            *)
(*   - the chat page, rendered again on every change of useChat's values.  *)
(* JavaScript strings are sequences of text tokens, so that template       *)
(* literals, join(' ') and split(',') are modelled by what they do.        *)
(* Other JavaScript values are records tagged by their type.               *)
EXTENDS Integers, Sequences, FiniteSets, TLC

VARIABLES
    arg,               \* per call: the exported function called and its argument
    pc,                \* per call: where the async call is suspended
    idx,               \* per call: position of the for-of loop in the list
    bytes,             \* per call: the decoded data handed to getDocument
    pdf,               \* per call: the document opened by getDocument
    pageNo,            \* per call: the page loop's i
    fullText,          \* per call: extractTextFromPDF's accumulator
    pdfText,           \* per call: value the awaited extraction resolved to
    extractedContent,  \* per call: processAttachments' accumulator
    outcome,           \* per call: the settled promise (returned or thrown value)
    trace,             \* per call: the extractor and PDF-library calls made
    languages,         \* highlight.js: registered name -> grammar
    hArg,              \* per highlighter call: function, code, language
    hpc,               \* per highlighter call: "idle" or "done"
    hOutcome,          \* per highlighter call: returned or thrown value
    hTrace,            \* per highlighter call: the highlight.js calls made
    regIdx,            \* highlight module: registerLanguage calls executed so far
    req,               \* per chat request: the body sent and what the model does
    rpc,               \* per chat request: where POST is suspended
    rOutcome,          \* per chat request: the Response returned or value thrown
    streamError,       \* per chat request: the value raised while the response streams
    errorPart,         \* per chat request: what getErrorMessage gave for that value
    status,            \* chat page: useChat's status
    input,             \* chat page: useChat's input text
    messages,          \* chat page: useChat's messages (role and content)
    screen             \* chat page: what the last render of Page shows

paVars == <<arg, pc, idx, bytes, pdf, pageNo, fullText, pdfText, extractedContent,
            outcome, trace>>
hlVars == <<languages, hArg, hpc, hOutcome, hTrace, regIdx>>
chatVars == <<req, rpc, rOutcome, streamError, errorPart>>
pageVars == <<status, input, messages, screen>>
vars == <<arg, pc, idx, bytes, pdf, pageNo, fullText, pdfText, extractedContent,
          outcome, trace, languages, hArg, hpc, hOutcome, hTrace, regIdx,
          req, rpc, rOutcome, streamError, errorPart,
          status, input, messages, screen>>

(***************************************************************************)
(* Bounds                                                                  *)
(***************************************************************************)
\* Longest attachment list passed to processAttachments.
MaxLen == 2

\* Longest text typed into the chat page's input, and most messages shown.
MaxInput == 2
MaxMessages == 4

\* The concurrent calls (logical requests) in flight.
Calls == {"c1", "c2"}

(***************************************************************************)
(* JavaScript values                                                       *)
(***************************************************************************)
Undefined == [t |-> "undefined"]
Null == [t |-> "null"]
Str(s) == [t |-> "string", s |-> s]
Arr(items) == [t |-> "array", items |-> items]
NumOf(n) == [t |-> "number", n |-> n]
Bool(b) == [t |-> "boolean", b |-> b]
Err(name, message) == [t |-> "error", name |-> name, message |-> message]
Att(name, contentType, url) ==
    [t |-> "object", name |-> name, contentType |-> contentType, url |-> url]

\* ToBoolean, as used by !x and by x && y.
Truthy(v) ==
    CASE v.t = "undefined" -> FALSE
      [] v.t = "null" -> FALSE
      [] v.t = "string" -> v.s # <<>>
      [] v.t = "number" -> v.n # 0
      [] v.t = "boolean" -> v.b
      [] OTHER -> TRUE

IsArray(v) == v.t = "array"

\* A settled promise / a completed call.
Return(v) == [kind |-> "return", v |-> v]
Throw(e) == [kind |-> "throw", v |-> e]
Pending == [kind |-> "pending"]

\* `${i}` for the page numbers the model reaches.
Digits == <<"1", "2", "3", "4">>
ToStr(n) == IF n = 0 THEN "0" ELSE Digits[n]

RECURSIVE Join(_, _)
\* Array.prototype.join over text items.
Join(items, sep) ==
    IF items = <<>> THEN <<>>
    ELSE IF Len(items) = 1 THEN <<items[1]>>
    ELSE <<items[1], sep>> \o Join(Tail(items), sep)

RECURSIVE SplitFrom(_, _, _)
SplitFrom(s, sep, cur) ==
    IF s = <<>> THEN <<cur>>
    ELSE IF Head(s) = sep THEN <<cur>> \o SplitFrom(Tail(s), sep, <<>>)
    ELSE SplitFrom(Tail(s), sep, Append(cur, Head(s)))

\* String.prototype.split: the parts between the separators.
Split(s, sep) == SplitFrom(s, sep, <<>>)

\* parts[k] of a JavaScript array (0-based), undefined past its end.
At(parts, k) == IF k + 1 <= Len(parts) THEN Str(parts[k + 1]) ELSE Undefined

(***************************************************************************)
(* The environment: base64 payloads and the PDF library's documents        *)
(***************************************************************************)
\* base64 payload token -> the bytes it decodes to.
Base64 ==
    { <<"JVBERi1B", "%PDF-A">>, <<"JVBERi1C", "%PDF-B">>,
      <<"JVBERi1Q", "%PDF-P">>, <<"JVBERi1O", "%PDF-N">>,
      <<"anVuaw==", "junk">> }

IsBase64(tok) == \E e \in Base64 : e[1] = tok
Decoded(tok) == (CHOOSE e \in Base64 : e[1] = tok)[2]

\* atob(x): x is converted to a string first (undefined -> "undefined");
\* a string that is not base64 raises InvalidCharacterError.
Atob(x) ==
    LET s == IF x.t = "string" THEN x.s ELSE <<x.t>>
    IN  IF \A k \in 1..Len(s) : IsBase64(s[k])
        THEN Return([k \in 1..Len(s) |-> Decoded(s[k])])
        ELSE Throw(Err("InvalidCharacterError",
                       "The string to be decoded is not correctly encoded."))

Ok(v) == [ok |-> TRUE, v |-> v]
Fail(e) == [ok |-> FALSE, v |-> e]
Page(getPage, getTextContent) ==
    [getPage |-> getPage, getTextContent |-> getTextContent]
Doc(pages) == [numPages |-> Len(pages), pages |-> pages]

\* pdfjsLib.getDocument({data}).promise, by the bytes handed in.
GetDocument(data) ==
    CASE data = <<"%PDF-A">> ->
           Ok(Doc(<< Page(Ok("p"), Ok(<<"Hello", "world">>)),
                     Page(Ok("p"), Ok(<<"Bye">>)) >>))
      [] data = <<"%PDF-B">> ->
           Ok(Doc(<< Page(Ok("p"), Ok(<<>>)) >>))
      [] data = <<"%PDF-P">> ->
           Ok(Doc(<< Page(Ok("p"), Ok(<<"First">>)),
                     Page(Ok("p"), Fail(Err("Error", "Invalid page content"))),
                     Page(Ok("p"), Ok(<<"Third">>)) >>))
      [] data = <<"%PDF-N">> ->
           Ok(Doc(<< Page(Fail(Null), Ok(<<>>)) >>))
      [] OTHER -> Fail(Err("InvalidPDFException", "Invalid PDF structure."))

DataUrl(payload) == Str(<<"data:application/pdf;base64", ",", payload>>)
UrlA == DataUrl("JVBERi1B")
UrlB == DataUrl("JVBERi1C")
UrlPartial == DataUrl("JVBERi1Q")
UrlNullThrow == DataUrl("JVBERi1O")
UrlJunk == DataUrl("anVuaw==")
UrlBadBase64 == DataUrl("@@not-base64@@")
UrlRemote == Str(<<"https://files.example/report.pdf">>)
UrlEmpty == Str(<<>>)


(***************************************************************************)
(* The attachment text extractor                                           *)
(***************************************************************************)
\* The list elements the model draws from: descriptors and non-descriptors.
PdfType == "application/pdf"
Elements ==
    { Null,
      Str(<<"not-a-descriptor">>),
      Att("data.csv", "text/csv", UrlA),
      Att("nourl.pdf", PdfType, UrlEmpty),
      Att("missing.pdf", PdfType, Undefined),
      Att("bad.pdf", PdfType, UrlBadBase64),
      Att("remote.pdf", PdfType, UrlRemote),
      Att("a.pdf", PdfType, UrlA),
      Att("a.pdf", PdfType, UrlB),
      Att("junk.pdf", PdfType, UrlJunk),
      Att("partial.pdf", PdfType, UrlPartial),
      Att("weird.pdf", PdfType, UrlNullThrow) }

Lists == UNION { [1..n -> Elements] : n \in 0..MaxLen }

\* Arguments that are no list: absent, or of another type.
NonLists == { Undefined, Null, Str(<<"not-a-list">>), Att("a.pdf", PdfType, UrlA) }

PAInputs == { Arr(l) : l \in Lists } \cup NonLists

\* The lists obtained from l by removing elements (order kept).
RECURSIVE SubLists(_)
SubLists(l) ==
    IF l = <<>> THEN { <<>> }
    ELSE LET rest == SubLists(Tail(l))
         IN  rest \cup { <<Head(l)>> \o r : r \in rest }

\* attachment.url / attachment.contentType / attachment.name of a list
\* element that is not null or undefined (a primitive has no such property).
UrlOf(a) == IF a.t = "object" THEN a.url ELSE Undefined
ContentTypeOf(a) == IF a.t = "object" THEN a.contentType ELSE "undefined"
NameOf(a) == IF a.t = "object" THEN a.name ELSE "undefined"

\* Reading a property of null or undefined raises TypeError.
IsNullish(v) == v.t \in {"null", "undefined"}

\* Mutant of IsHandledPdf: the content type is not looked at.
IsHandledPdfAnyType(a) == Truthy(UrlOf(a))

\* Mutant of IsHandledPdf: the url is not looked at.
IsHandledPdfAnyUrl(a) == ContentTypeOf(a) = PdfType

\* The condition under which an attachment is extracted.
IsHandledPdf(a) == ContentTypeOf(a) = PdfType /\ Truthy(UrlOf(a))

\* Data URL -> bytes: split(',')[1], then atob.
Decode(pdfDataUrl) ==
    IF pdfDataUrl.t # "string"
    THEN Throw(Err("TypeError", "pdfDataUrl.split is not a function"))
    ELSE Atob(At(Split(pdfDataUrl.s, ","), 1))

\* textContent.items.map(item => item.str).join(' ')
PageText(items) == Join(items, " ")

\* Mutant of PageBlock: pages are numbered from 0.
PageBlockFromZero(i, items) ==
    <<"\n--- Page ", ToStr(i - 1), " ---\n">> \o PageText(items) \o <<"\n">>

\* `\n--- Page ${i} ---\n${textItems}\n`
PageBlock(i, items) ==
    <<"\n--- Page ", ToStr(i), " ---\n">> \o PageText(items) \o <<"\n">>

\* ${error.message}: undefined for a thrown value that has no message.
MessageOf(error) == IF error.t = "error" THEN error.message ELSE "undefined"

\* Mutant of CatchBlock: the failure is rethrown.
CatchBlockRethrow(error) == Throw(error)

\* The catch block of extractTextFromPDF.  Reading error.message of a
\* thrown null or undefined raises TypeError inside the handler.
CatchBlock(error) ==
    IF IsNullish(error)
    THEN Throw(Err("TypeError", "Cannot read properties of null (reading 'message')"))
    ELSE Return(<<"[Unable to extract PDF content. Error: ", MessageOf(error), "]">>)

\* Mutant of AttachmentBlock: the block is labelled but its text is dropped.
AttachmentBlockNoText(name, text) ==
    <<"\n\nContent from PDF file \"", name, "\":\n">> \o <<"\n\n">>

\* `\n\nContent from PDF file "${attachment.name}":\n${pdfText}\n\n`
AttachmentBlock(name, text) ==
    <<"\n\nContent from PDF file \"", name, "\":\n">> \o text \o <<"\n\n">>

(***************************************************************************)
(* The async calls.  Each action is the code that runs between two awaits. *)
(***************************************************************************)
PA(v) == [fn |-> "processAttachments", v |-> v]
EX(v) == [fn |-> "extractTextFromPDF", v |-> v]

\* Mutant of Cur: every call reads the page accumulator of the first call,
\* as if fullText were declared at module scope.
CurSharedFullText(p) ==
    [pc |-> pc[p], idx |-> idx[p], bytes |-> bytes[p], pdf |-> pdf[p],
     pageNo |-> pageNo[p], fullText |-> fullText["c1"], pdfText |-> pdfText[p],
     extractedContent |-> extractedContent[p], outcome |-> outcome[p],
     trace |-> trace[p]]

\* The local state of call p, and its replacement by n.
Cur(p) ==
    [pc |-> pc[p], idx |-> idx[p], bytes |-> bytes[p], pdf |-> pdf[p],
     pageNo |-> pageNo[p], fullText |-> fullText[p], pdfText |-> pdfText[p],
     extractedContent |-> extractedContent[p], outcome |-> outcome[p],
     trace |-> trace[p]]

Update(p, n) ==
    /\ pc' = [pc EXCEPT ![p] = n.pc]
    /\ idx' = [idx EXCEPT ![p] = n.idx]
    /\ bytes' = [bytes EXCEPT ![p] = n.bytes]
    /\ pdf' = [pdf EXCEPT ![p] = n.pdf]
    /\ pageNo' = [pageNo EXCEPT ![p] = n.pageNo]
    /\ fullText' = [fullText EXCEPT ![p] = n.fullText]
    /\ pdfText' = [pdfText EXCEPT ![p] = n.pdfText]
    /\ extractedContent' = [extractedContent EXCEPT ![p] = n.extractedContent]
    /\ outcome' = [outcome EXCEPT ![p] = n.outcome]
    /\ trace' = [trace EXCEPT ![p] = n.trace]
    /\ UNCHANGED <<arg, hlVars, chatVars, pageVars>>

\* The exported call's promise settles with o.
Settle(c, o) ==
    [c EXCEPT !.pc = IF o.kind = "return" THEN "returned" ELSE "rejected",
              !.outcome = o]

\* extractTextFromPDF's promise settles with o.  Called directly, that is
\* the call's outcome.  Called from processAttachments, a fulfilled value
\* resumes the loop after the await; a rejection is rethrown by the await,
\* which no handler of processAttachments encloses.
ExtractFinish(c, fn, o) ==
    IF fn = "extractTextFromPDF" \/ o.kind = "throw"
    THEN Settle(c, o)
    ELSE [c EXCEPT !.pc = "await", !.pdfText = o.v]

\* extractTextFromPDF up to its first await: decode, then getDocument.
EnterExtract(c, fn, url) ==
    LET d == Decode(url)
        c1 == [c EXCEPT !.trace = Append(@, <<"extractTextFromPDF", ToStr(c.idx)>>)]
    IN  IF d.kind = "throw"
        THEN ExtractFinish(c1, fn, CatchBlock(d.v))
        ELSE [c1 EXCEPT !.bytes = d.v, !.pc = "open",
                        !.trace = Append(@, <<"getDocument", ToStr(c.idx)>>)]

\* The first position from k on at which the for-of loop stops skipping:
\* a null or undefined element, or an attachment that is extracted.
RECURSIVE Scan(_, _)
Scan(items, k) ==
    IF k > Len(items) THEN k
    ELSE IF IsNullish(items[k]) \/ IsHandledPdf(items[k]) THEN k
    ELSE Scan(items, k + 1)

\* The for-of loop from position k up to its next await (or its end).
RunLoop(c, items, k) ==
    LET j == Scan(items, k)
    IN  IF j > Len(items)
        THEN Settle([c EXCEPT !.idx = j], Return(c.extractedContent))
        ELSE IF IsNullish(items[j])
        THEN Settle([c EXCEPT !.idx = j],
                    Throw(Err("TypeError", "Cannot read properties of null (reading 'name')")))
        ELSE EnterExtract([c EXCEPT !.idx = j], "processAttachments", UrlOf(items[j]))

\* Mutant of EmptyInput: the argument is not checked to be a list.
EmptyInputNoArrayCheck(a) == ~Truthy(a) \/ (IsArray(a) /\ Len(a.items) = 0)

\* !attachments || !Array.isArray(attachments) || attachments.length === 0
EmptyInput(a) == ~Truthy(a) \/ ~IsArray(a) \/ Len(a.items) = 0

\* processAttachments from its entry to its first await (or its return).
processAttachments(c, attachments) ==
    IF EmptyInput(attachments)
    THEN Settle(c, Return(<<>>))
    ELSE IF IsArray(attachments)
    THEN RunLoop([c EXCEPT !.extractedContent = <<>>], attachments.items, 1)
    ELSE Settle(c, Throw(Err("TypeError", "attachments is not iterable")))

\* extractTextFromPDF, called directly, from its entry to its first await.
extractTextFromPDF(c, pdfDataUrl) == EnterExtract(c, "extractTextFromPDF", pdfDataUrl)

\* A request calls one of the two exported functions.
Call(p) ==
    /\ pc[p] = "idle"
    /\ Update(p, IF arg[p].fn = "processAttachments"
                 THEN processAttachments(Cur(p), arg[p].v)
                 ELSE extractTextFromPDF(Cur(p), arg[p].v))

\* Mutant of AfterOpen: every page of the document is requested at once.
AfterOpenAllPages(c, fn) ==
    LET r == GetDocument(c.bytes)
    IN  IF ~r.ok THEN ExtractFinish(c, fn, CatchBlock(r.v))
        ELSE IF 1 <= r.v.numPages
        THEN [c EXCEPT !.pdf = r.v, !.fullText = <<>>, !.pageNo = 1,
                       !.pc = "getPage",
                       !.trace = @ \o [i \in 1..r.v.numPages |-> <<"getPage", ToStr(i)>>]]
        ELSE ExtractFinish([c EXCEPT !.pdf = r.v, !.fullText = <<>>, !.pageNo = 1],
                           fn, Return(<<>>))

\* After `await loadingTask.promise`: the document opened, or the catch.
AfterOpen(c, fn) ==
    LET r == GetDocument(c.bytes)
    IN  IF ~r.ok THEN ExtractFinish(c, fn, CatchBlock(r.v))
        ELSE IF 1 <= r.v.numPages
        THEN [c EXCEPT !.pdf = r.v, !.fullText = <<>>, !.pageNo = 1,
                       !.pc = "getPage",
                       !.trace = Append(@, <<"getPage", "1">>)]
        ELSE ExtractFinish([c EXCEPT !.pdf = r.v, !.fullText = <<>>, !.pageNo = 1],
                           fn, Return(<<>>))

Open(p) ==
    /\ pc[p] = "open"
    /\ Update(p, AfterOpen(Cur(p), arg[p].fn))

\* After `await pdf.getPage(i)`: the page, or the catch.
AfterGetPage(c, fn) ==
    LET r == c.pdf.pages[c.pageNo].getPage
    IN  IF ~r.ok THEN ExtractFinish(c, fn, CatchBlock(r.v))
        ELSE [c EXCEPT !.pc = "getTextContent",
                       !.trace = Append(@, <<"getTextContent", ToStr(c.pageNo)>>)]

GetPage(p) ==
    /\ pc[p] = "getPage"
    /\ Update(p, AfterGetPage(Cur(p), arg[p].fn))

\* After `await page.getTextContent()`: the page's block is appended and
\* the loop goes to the next page, or returns fullText after the last.
AfterGetTextContent(c, fn) ==
    LET r == c.pdf.pages[c.pageNo].getTextContent
        text == c.fullText \o PageBlock(c.pageNo, r.v)
        i == c.pageNo + 1
    IN  IF ~r.ok THEN ExtractFinish(c, fn, CatchBlock(r.v))
        ELSE IF i <= c.pdf.numPages
        THEN [c EXCEPT !.fullText = text, !.pageNo = i, !.pc = "getPage",
                       !.trace = Append(@, <<"getPage", ToStr(i)>>)]
        ELSE ExtractFinish([c EXCEPT !.fullText = text, !.pageNo = i], fn, Return(text))

GetTextContent(p) ==
    /\ pc[p] = "getTextContent"
    /\ Update(p, AfterGetTextContent(Cur(p), arg[p].fn))

\* Mutant of AfterExtract: a block whose label is already in the result is
\* not added again.
AfterExtractDedup(c, items) ==
    RunLoop([c EXCEPT !.extractedContent =
                         IF \E k \in 1..Len(@) - 1 :
                                @[k] = "\n\nContent from PDF file \""
                                /\ @[k + 1] = NameOf(items[c.idx])
                         THEN @
                         ELSE @ \o AttachmentBlock(NameOf(items[c.idx]), c.pdfText)],
            items, c.idx + 1)

\* After `await extractTextFromPDF(attachment.url)`: the labelled block is
\* appended and the for-of loop goes on with the next attachment.
AfterExtract(c, items) ==
    RunLoop([c EXCEPT !.extractedContent =
                         @ \o AttachmentBlock(NameOf(items[c.idx]), c.pdfText)],
            items, c.idx + 1)

Resume(p) ==
    /\ pc[p] = "await"
    /\ Update(p, AfterExtract(Cur(p), arg[p].v.items))

(***************************************************************************)
(* Initial states                                                          *)
(***************************************************************************)
ItemsOf(a) == IF IsArray(a) THEN a.items ELSE <<>>

\* The second request: the first request's list with some attachments
\* removed, or a direct extraction of one of its urls (or of no string).
Related(a) ==
    { PA(Arr(l)) : l \in SubLists(ItemsOf(a)) }
    \cup { EX(UrlOf(ItemsOf(a)[k])) :
             k \in { n \in 1..Len(ItemsOf(a)) : ~IsNullish(ItemsOf(a)[n]) } }
    \cup { EX(Undefined) }

BlankDoc == Doc(<<>>)

InitExtractor ==
    /\ \E a \in PAInputs : \E r \in Related(a) :
          arg = [p \in Calls |-> IF p = "c1" THEN PA(a) ELSE r]
    /\ pc = [p \in Calls |-> "idle"]
    /\ idx = [p \in Calls |-> 0]
    /\ bytes = [p \in Calls |-> <<>>]
    /\ pdf = [p \in Calls |-> BlankDoc]
    /\ pageNo = [p \in Calls |-> 0]
    /\ fullText = [p \in Calls |-> <<>>]
    /\ pdfText = [p \in Calls |-> <<>>]
    /\ extractedContent = [p \in Calls |-> <<>>]
    /\ outcome = [p \in Calls |-> Pending]
    /\ trace = [p \in Calls |-> <<>>]

(***************************************************************************)
(* The code-language utility: highlight.js and its registry                *)
(***************************************************************************)
\* The hljs.registerLanguage(name, grammar) calls, in source order.
Registrations ==
    << <<"python", "python">>, <<"typescript", "typescript">>, <<"javascript", "javascript">>,
       <<"js", "javascript">>, <<"java", "java">>, <<"bash", "bash">>,
       <<"shell", "shell">>, <<"sh", "shell">>, <<"json", "json">>,
       <<"yaml", "yaml">>, <<"yml", "yaml">>, <<"xml", "xml">>,
       <<"html", "xml">>, <<"markdown", "markdown">>, <<"md", "markdown">>,
       <<"css", "css">>, <<"scss", "scss">>, <<"sql", "sql">>,
       <<"php", "php">>, <<"csharp", "csharp">>, <<"cs", "csharp">>,
       <<"cpp", "cpp">>, <<"c++", "cpp">>, <<"go", "go">>,
       <<"golang", "go">>, <<"rust", "rust">>, <<"rs", "rust">>,
       <<"swift", "swift">>, <<"kotlin", "kotlin">>, <<"kt", "kotlin">>,
       <<"ruby", "ruby">>, <<"rb", "ruby">>, <<"dart", "dart">>,
       <<"diff", "diff">>, <<"dockerfile", "dockerfile">>, <<"docker", "dockerfile">>,
       <<"graphql", "graphql">>, <<"gql", "graphql">>, <<"http", "http">>,
       <<"ini", "ini">>, <<"latex", "latex">>, <<"tex", "latex">>,
       <<"objectivec", "objectivec">>, <<"objc", "objectivec">>, <<"perl", "perl">>,
       <<"pl", "perl">>, <<"plaintext", "plaintext">>, <<"text", "plaintext">>,
       <<"r", "r">>, <<"scala", "scala">>, <<"powershell", "powershell">>,
       <<"ps", "powershell">> >>

RECURSIVE RegisterAllOwnGrammar(_, _)
\* Mutant of RegisterAll: every name is given a grammar of its own.
RegisterAllOwnGrammar(regs, table) ==
    IF regs = <<>> THEN table
    ELSE LET name == Head(regs)[1]
         IN  RegisterAllOwnGrammar(Tail(regs),
                 [n \in DOMAIN table \cup {name} |->
                     IF n = name THEN name ELSE table[n]])

RECURSIVE RegisterAllShAsBash(_, _)
\* Mutant of RegisterAll: 'sh' is registered with the grammar of 'bash'.
RegisterAllShAsBash(regs, table) ==
    IF regs = <<>> THEN table
    ELSE LET name == Head(regs)[1]
             grammar == IF name = "sh" THEN "bash" ELSE Head(regs)[2]
         IN  RegisterAllShAsBash(Tail(regs),
                 [n \in DOMAIN table \cup {name} |->
                     IF n = name THEN grammar ELSE table[n]])

RECURSIVE RegisterAll(_, _)
\* hljs.registerLanguage: languages[name] = grammar, a later call winning.
RegisterAll(regs, table) ==
    IF regs = <<>> THEN table
    ELSE LET name == Head(regs)[1]
             grammar == Head(regs)[2]
         IN  RegisterAll(Tail(regs),
                 [n \in DOMAIN table \cup {name} |->
                     IF n = name THEN grammar ELSE table[n]])

EmptyTable == [n \in {} |-> "none"]

\* The registry once the module has been loaded: the names registered by
\* the calls above (the aliases a grammar declares inside the library are
\* not part of this table).
Registry == RegisterAll(Registrations, EmptyTable)

\* The candidate subset handed to hljs.highlightAuto.
Candidates ==
    { "typescript", "javascript", "python", "java", "html", "css",
      "json", "bash", "yaml", "sql", "php", "csharp", "cpp" }

\* The code arguments: four strings and a value that is no string.
CodeJs == Str(<<"const x = 1;">>)
CodePy == Str(<<"def f(): pass">>)
CodeProse == Str(<<"hello world">>)
CodeTrap == Str(<<"function f() {", "/*trap*/", "}">>)
Codes == { CodeJs, CodePy, CodeProse, CodeTrap, Null }

\* The language arguments: omitted, empty, registered, unregistered.
LanguageArgs ==
    { Undefined, Str(<<>>), Str(<<"javascript">>), Str(<<"js">>),
      Str(<<"python">>), Str(<<"plaintext">>), Str(<<"nosuchlang">>) }

\* The classifier's best guess for a code string, "" when no grammar
\* scores above the floor.
BestGuess(code) ==
    CASE code = CodeJs -> "javascript"
      [] code = CodePy -> "python"
      [] code = CodeTrap -> "javascript"
      [] OTHER -> ""

\* Whether rendering the code under the grammar raises in the library.
RenderRaises(grammar, code) ==
    \/ code.t # "string"
    \/ code = CodeTrap /\ grammar = "javascript"

\* A language argument as a registry key: the text of the string.
KeyOf(language) ==
    IF language.t = "string" /\ Len(language.s) = 1 THEN language.s[1] ELSE ""

\* hljs.highlight(code, {language}).value
Highlight(table, code, language) ==
    IF KeyOf(language) \notin DOMAIN table
    THEN Throw(Err("Error", "Unknown language"))
    ELSE IF RenderRaises(table[KeyOf(language)], code)
    THEN Throw(Err("TypeError", "rendering failed"))
    ELSE Return(<<"<code class=\"", table[KeyOf(language)], "\">">> \o code.s)

\* hljs.highlightAuto(code, subset).language
HighlightAuto(table, code, subset) ==
    IF code.t # "string"
    THEN Throw(Err("TypeError", "rendering failed"))
    ELSE IF BestGuess(code) \in subset \cap DOMAIN table
    THEN Return(Str(<<BestGuess(code)>>))
    ELSE Return(Undefined)

\* Mutant of detectLanguage: no 'plaintext' default for an absent language.
detectLanguageNoDefault(table, code) == HighlightAuto(table, code, Candidates)

\* detectLanguage: the classifier's language, or 'plaintext' for none.
detectLanguage(table, code) ==
    LET detection == HighlightAuto(table, code, Candidates)
    IN  IF detection.kind = "throw" THEN detection
        ELSE Return(IF Truthy(detection.v) THEN detection.v ELSE Str(<<"plaintext">>))

\* Mutant of ResolveLanguage: an omitted identifier means plain text.
ResolveLanguageNoDetect(table, code, language) ==
    [o |-> Return(IF Truthy(language) THEN language ELSE Str(<<"plaintext">>)),
     calls |-> <<>>]

\* if (!language) { language = detectLanguage(code); }
ResolveLanguage(table, code, language) ==
    IF ~Truthy(language)
    THEN [o |-> detectLanguage(table, code), calls |-> << <<"highlightAuto", "">> >>]
    ELSE [o |-> Return(language), calls |-> <<>>]

\* Mutant of TryRender: the failure of the first rendering is not caught.
TryRenderNoCatch(table, code, language) ==
    [o |-> Highlight(table, code, language),
     calls |-> << <<"highlight", KeyOf(language)>> >>]

\* try { hljs.highlight(code, {language}) } catch { ...'plaintext' }:
\* what the fallback raises is not caught.
TryRender(table, code, language) ==
    LET r == Highlight(table, code, language)
    IN  IF r.kind = "return"
        THEN [o |-> r, calls |-> << <<"highlight", KeyOf(language)>> >>]
        ELSE [o |-> Highlight(table, code, Str(<<"plaintext">>)),
              calls |-> << <<"highlight", KeyOf(language)>>,
                           <<"highlight", "plaintext">> >>]

\* Mutant of highlightCode: an omitted identifier is replaced by the one an
\* earlier call was given.
highlightCodeSticky(table, code, language) ==
    LET earlier == { q \in Calls : hpc[q] = "done" /\ Truthy(hArg[q].language) }
        given == IF ~Truthy(language) /\ earlier # {}
                 THEN hArg[CHOOSE q \in earlier : TRUE].language
                 ELSE language
        l == ResolveLanguage(table, code, given)
    IN  IF l.o.kind = "throw" THEN l
        ELSE LET r == TryRender(table, code, l.o.v)
             IN  [o |-> r.o, calls |-> l.calls \o r.calls]

\* highlightCode: resolve the language (outside the try), then render.
highlightCode(table, code, language) ==
    LET l == ResolveLanguage(table, code, language)
    IN  IF l.o.kind = "throw" THEN l
        ELSE LET r == TryRender(table, code, l.o.v)
             IN  [o |-> r.o, calls |-> l.calls \o r.calls]

HL(code, language) == [fn |-> "highlightCode", code |-> code, language |-> language]
DL(code) == [fn |-> "detectLanguage", code |-> code, language |-> Undefined]

\* Mutant of HighlightCodeCall: an unknown identifier is registered with
\* the plain-text grammar when the call falls back.
HighlightCodeCallRegistering(p) ==
    /\ regIdx = Len(Registrations)
    /\ hpc[p] = "idle"
    /\ hArg[p].fn = "highlightCode"
    /\ LET r == highlightCode(languages, hArg[p].code, hArg[p].language)
           key == KeyOf(hArg[p].language)
       IN  /\ hOutcome' = [hOutcome EXCEPT ![p] = r.o]
           /\ hTrace' = [hTrace EXCEPT ![p] = r.calls]
           /\ languages' = IF key \in DOMAIN languages \cup {""} THEN languages
                           ELSE RegisterAll(<< <<key, "plaintext">> >>, languages)
    /\ hpc' = [hpc EXCEPT ![p] = "done"]
    /\ UNCHANGED <<paVars, hArg, regIdx, chatVars, pageVars>>

\* The exports are initialised below the registration calls: they can be
\* called once the module body has run.
HighlightCodeCall(p) ==
    /\ regIdx = Len(Registrations)
    /\ hpc[p] = "idle"
    /\ hArg[p].fn = "highlightCode"
    /\ LET r == highlightCode(languages, hArg[p].code, hArg[p].language)
       IN  /\ hOutcome' = [hOutcome EXCEPT ![p] = r.o]
           /\ hTrace' = [hTrace EXCEPT ![p] = r.calls]
    /\ hpc' = [hpc EXCEPT ![p] = "done"]
    /\ UNCHANGED <<paVars, languages, hArg, regIdx, chatVars, pageVars>>

DetectLanguageCall(p) ==
    /\ regIdx = Len(Registrations)
    /\ hpc[p] = "idle"
    /\ hArg[p].fn = "detectLanguage"
    /\ hOutcome' = [hOutcome EXCEPT ![p] = detectLanguage(languages, hArg[p].code)]
    /\ hTrace' = [hTrace EXCEPT ![p] = << <<"highlightAuto", "">> >>]
    /\ hpc' = [hpc EXCEPT ![p] = "done"]
    /\ UNCHANGED <<paVars, languages, hArg, regIdx, chatVars, pageVars>>

HLInputs == { HL(c, l) : c \in Codes, l \in LanguageArgs } \cup { DL(c) : c \in Codes }

InitHighlighter ==
    /\ languages = Registry
    /\ regIdx = Len(Registrations)
    /\ hArg \in [Calls -> HLInputs]
    /\ hpc = [p \in Calls |-> "idle"]
    /\ hOutcome = [p \in Calls |-> Pending]
    /\ hTrace = [p \in Calls |-> <<>>]

\* No highlighter call is made.
InitNoHighlighter ==
    /\ languages = Registry
    /\ regIdx = Len(Registrations)
    /\ hArg = [p \in Calls |-> DL(CodeProse)]
    /\ hpc = [p \in Calls |-> "unused"]
    /\ hOutcome = [p \in Calls |-> Pending]
    /\ hTrace = [p \in Calls |-> <<>>]

\* No extractor call is made.
InitNoExtractor ==
    /\ arg = [p \in Calls |-> PA(Undefined)]
    /\ pc = [p \in Calls |-> "unused"]
    /\ idx = [p \in Calls |-> 0]
    /\ bytes = [p \in Calls |-> <<>>]
    /\ pdf = [p \in Calls |-> BlankDoc]
    /\ pageNo = [p \in Calls |-> 0]
    /\ fullText = [p \in Calls |-> <<>>]
    /\ pdfText = [p \in Calls |-> <<>>]
    /\ extractedContent = [p \in Calls |-> <<>>]
    /\ outcome = [p \in Calls |-> Pending]
    /\ trace = [p \in Calls |-> <<>>]

\* Loading the highlight module: the registration calls run one by one, in
\* source order, before the exports below them exist.
RegisterLanguage ==
    /\ regIdx < Len(Registrations)
    /\ languages' = RegisterAll(<<Registrations[regIdx + 1]>>, languages)
    /\ regIdx' = regIdx + 1
    /\ UNCHANGED <<paVars, hArg, hpc, hOutcome, hTrace, chatVars, pageVars>>

\* The second call's arguments: the first call's again, or other ones.
RelatedHL(a) ==
    { a, DL(a.code), HL(a.code, Str(<<"js">>)), HL(CodeTrap, Str(<<"nosuchlang">>)) }

\* The module has not been loaded yet.
InitLoading ==
    /\ languages = EmptyTable
    /\ regIdx = 0
    /\ \E a \in HLInputs : \E b \in RelatedHL(a) :
          hArg = [p \in Calls |-> IF p = "c1" THEN a ELSE b]
    /\ hpc = [p \in Calls |-> "idle"]
    /\ hOutcome = [p \in Calls |-> Pending]
    /\ hTrace = [p \in Calls |-> <<>>]

\* One extractor call, on a list of one attachment.
InitOneExtractor ==
    /\ \E e \in { Null, Att("a.pdf", PdfType, UrlA), Att("junk.pdf", PdfType, UrlJunk) } :
          arg = [p \in Calls |-> PA(Arr(<<e>>))]
    /\ pc = [p \in Calls |-> IF p = "c1" THEN "idle" ELSE "unused"]
    /\ idx = [p \in Calls |-> 0]
    /\ bytes = [p \in Calls |-> <<>>]
    /\ pdf = [p \in Calls |-> BlankDoc]
    /\ pageNo = [p \in Calls |-> 0]
    /\ fullText = [p \in Calls |-> <<>>]
    /\ pdfText = [p \in Calls |-> <<>>]
    /\ extractedContent = [p \in Calls |-> <<>>]
    /\ outcome = [p \in Calls |-> Pending]
    /\ trace = [p \in Calls |-> <<>>]

(***************************************************************************)
(* The chat route: POST(req)                                               *)
(***************************************************************************)
Num == NumOf(42)
Body(msgs, attachments) ==
    [t |-> "object", messages |-> msgs, experimental_attachments |-> attachments]
Response(code, body) == [t |-> "response", status |-> code, body |-> body]

Messages == Arr(<< Str(<<"hello">>) >>)

\* What req.json() settles with: a rejection (malformed JSON, an aborted
\* body stream whose reason is any value), or the parsed JSON value.
JsonOutcomes ==
    { Throw(Err("SyntaxError", "Unexpected token } in JSON")),
      Throw(Str(<<"aborted">>)),
      Throw(Undefined),
      Return(Null),
      Return(Num),
      Return(Body(Undefined, Undefined)),
      Return(Body(Messages, Undefined)),
      Return(Body(Messages, Str(<<"not-a-list">>))),
      Return(Body(Messages, Arr(<< Att("a.pdf", PdfType, UrlA) >>))),
      Return(Body(Messages, Arr(<< Null >>))) }

\* What openai(...) and streamText(...) do when the stream is started.
ModelOutcomes ==
    { Return(Str(<<"stream">>)),
      Throw(Err("AI_LoadAPIKeyError", "OpenAI API key is missing.")),
      Throw(Str(<<"quota exceeded">>)),
      Throw(Null) }

Requests == [json : JsonOutcomes, model : ModelOutcomes]

\* v.messages and v.experimental_attachments of a value that is not nullish.
FieldsOf(v) ==
    IF v.t = "object" /\ "messages" \in DOMAIN v
    THEN [messages |-> v.messages, experimental_attachments |-> v.experimental_attachments]
    ELSE [messages |-> Undefined, experimental_attachments |-> Undefined]

\* const { messages, experimental_attachments } = <value>
Destructure(v) ==
    IF IsNullish(v)
    THEN Throw(Err("TypeError", "Cannot destructure property 'messages'"))
    ELSE Return(FieldsOf(v))

\* The logging of the attachments: f.name of a null element raises.
LogAttachments(attachments) ==
    IF Truthy(attachments) /\ IsArray(attachments)
    THEN IF \E i \in 1..Len(attachments.items) : IsNullish(attachments.items[i])
         THEN Throw(Err("TypeError", "Cannot read properties of null (reading 'name')"))
         ELSE Return(Undefined)
    ELSE Return(Undefined)

\* streamText({...}) followed by result.toDataStreamResponse({...}).
StreamResponse(model) ==
    IF model.kind = "throw" THEN model ELSE Return(Response(200, <<"data-stream">>))

\* The try block of POST, from the settling of req.json() on.
TryBlock(r) ==
    IF r.json.kind = "throw" THEN r.json
    ELSE LET d == Destructure(r.json.v)
         IN  IF d.kind = "throw" THEN d
             ELSE LET l == LogAttachments(d.v.experimental_attachments)
                  IN  IF l.kind = "throw" THEN l ELSE StreamResponse(r.model)

\* The catch block of POST.  Reading err.message of a thrown null or
\* undefined raises TypeError inside the handler.
CatchServer(err) ==
    IF IsNullish(err)
    THEN Throw(Err("TypeError", "Cannot read properties of null (reading 'message')"))
    ELSE Return(Response(500, <<"Error: ", MessageOf(err)>>))

\* POST is entered and suspends at await req.json().
POST(p) ==
    /\ rpc[p] = "idle"
    /\ rpc' = [rpc EXCEPT ![p] = "json"]
    /\ UNCHANGED <<paVars, hlVars, pageVars, req, rOutcome, streamError, errorPart>>

\* req.json() has settled: the rest of POST runs to its end.
AfterJson(p) ==
    /\ rpc[p] = "json"
    /\ LET t == TryBlock(req[p])
           o == IF t.kind = "throw" THEN CatchServer(t.v) ELSE t
       IN  /\ rOutcome' = [rOutcome EXCEPT ![p] = o]
           /\ rpc' = [rpc EXCEPT ![p] = IF o.kind = "return" THEN "responded" ELSE "rejected"]
    /\ UNCHANGED <<paVars, hlVars, pageVars, req, streamError, errorPart>>

InitChat ==
    /\ req \in [Calls -> Requests]
    /\ rpc = [p \in Calls |-> "idle"]
    /\ rOutcome = [p \in Calls |-> Pending]
    /\ streamError = [p \in Calls |-> Undefined]
    /\ errorPart = [p \in Calls |-> Pending]

\* No chat request is made.
InitNoChat ==
    /\ req = [p \in Calls |-> [json |-> Return(Null), model |-> Throw(Null)]]
    /\ rpc = [p \in Calls |-> "unused"]
    /\ rOutcome = [p \in Calls |-> Pending]
    /\ streamError = [p \in Calls |-> Undefined]
    /\ errorPart = [p \in Calls |-> Pending]

(***************************************************************************)
(* The chat route: getErrorMessage, called when the stream raises          *)
(***************************************************************************)
\* The values a stream can raise: falsy ones, strings, Error objects with
\* and without message, and values of other types.
StreamErrors ==
    { Null, Undefined, Str(<<>>), NumOf(0), Bool(FALSE),
      Str(<<"rate limited">>),
      Err("Error", "boom"),
      Err("AI_APICallError", ""),
      NumOf(42), Bool(TRUE), Arr(<<>>),
      Att("details", "text/plain", Undefined) }

\* Mutant of getErrorMessage: an Error's message is returned as it is.
getErrorMessageNoDefault(error) ==
    IF ~Truthy(error) THEN Str(<<"Unknown error">>)
    ELSE IF error.t = "string" THEN error
    ELSE IF error.t = "error" THEN Str(<<error.message>>)
    ELSE Str(<<"An unexpected error occurred.">>)

\* getErrorMessage: !error, typeof error === 'string', error instanceof
\* Error with `error.message || ...`, and the fallback.
getErrorMessage(error) ==
    IF ~Truthy(error) THEN Str(<<"Unknown error">>)
    ELSE IF error.t = "string" THEN error
    ELSE IF error.t = "error"
    THEN (IF error.message # "" THEN Str(<<error.message>>)
          ELSE Str(<<"An error occurred while processing.">>))
    ELSE Str(<<"An unexpected error occurred.">>)

\* The stream of a returned streaming response raises: the data stream
\* carries what getErrorMessage gives for the raised value.
StreamError(p) ==
    /\ rpc[p] = "responded"
    /\ rOutcome[p] = Return(Response(200, <<"data-stream">>))
    /\ errorPart[p] = Pending
    /\ errorPart' = [errorPart EXCEPT ![p] = Return(getErrorMessage(streamError[p]))]
    /\ UNCHANGED <<paVars, hlVars, pageVars, req, rpc, rOutcome, streamError>>

\* Two requests that reach the model, each with the value its stream raises.
InitStreaming ==
    /\ req = [p \in Calls |->
                 [json |-> Return(Body(Messages, Undefined)),
                  model |-> Return(Str(<<"stream">>))]]
    /\ rpc = [p \in Calls |-> "idle"]
    /\ rOutcome = [p \in Calls |-> Pending]
    /\ streamError \in [Calls -> StreamErrors]
    /\ errorPart = [p \in Calls |-> Pending]

(***************************************************************************)
(* The chat page                                                           *)
(***************************************************************************)
\* Mutant of Render: the input is disabled only while a response is awaited
\* or streaming.
RenderInputOffInFlight(st, inp, msgs) ==
    LET statusBar == st = "submitted" \/ st = "streaming"
    IN  [bubbles |-> msgs,
         statusBar |-> statusBar,
         thinking |-> statusBar /\ st = "submitted",
         stop |-> statusBar,
         inputValue |-> inp,
         inputDisabled |-> statusBar]

\* What Page renders for the values useChat returns.  The 'Thinking...'
\* indicator and the Stop button are children of the status bar.
Render(st, inp, msgs) ==
    LET statusBar == st = "submitted" \/ st = "streaming"
    IN  [bubbles |-> msgs,
         statusBar |-> statusBar,
         thinking |-> statusBar /\ st = "submitted",
         stop |-> statusBar,
         inputValue |-> inp,
         inputDisabled |-> st # "ready"]

\* The page is not used.
InitNoPage ==
    /\ status = "ready"
    /\ input = <<>>
    /\ messages = <<>>
    /\ screen = Render("ready", <<>>, <<>>)

\* useChat changes its values: Page renders again.
Rerender(st, inp, msgs) ==
    /\ status' = st
    /\ input' = inp
    /\ messages' = msgs
    /\ screen' = Render(st, inp, msgs)
    /\ UNCHANGED <<paVars, hlVars, chatVars>>

\* The character typed into the input.
Keys == {"h"}

\* The user types into the input, which a disabled input does not allow.
HandleInputChange(ch) ==
    /\ ~screen.inputDisabled
    /\ Len(input) < MaxInput
    /\ Rerender(status, Append(input, ch), messages)

\* The form is submitted (the Send button is never disabled): a non-empty
\* input becomes a user message and the request is sent.
HandleSubmit ==
    /\ input # <<>>
    /\ Len(messages) < MaxMessages
    /\ Rerender("submitted", <<>>, Append(messages, [role |-> "user", content |-> input]))

\* The response stream starts: the assistant message appears.
StreamStarts ==
    /\ status = "submitted"
    /\ Len(messages) < MaxMessages
    /\ Rerender("streaming", input, Append(messages, [role |-> "assistant", content |-> <<"ok">>]))

\* The full response has been received.
StreamEnds ==
    /\ status = "streaming"
    /\ Rerender("ready", input, messages)

\* The API request fails.
RequestFails ==
    /\ status \in {"submitted", "streaming"}
    /\ Rerender("error", input, messages)

\* The user clicks Stop, which is there to click only when rendered.
Stop ==
    /\ screen.stop
    /\ Rerender("ready", input, messages)

InitPage ==
    /\ status = "ready"
    /\ input = <<>>
    /\ messages = <<>>
    /\ screen = Render("ready", <<>>, <<>>)

(***************************************************************************)
(* Specifications                                                          *)
(***************************************************************************)
Init == InitExtractor /\ InitNoHighlighter /\ InitNoChat /\ InitNoPage

Next ==
    \E p \in Calls :
        \/ Call(p)
        \/ Open(p)
        \/ GetPage(p)
        \/ GetTextContent(p)
        \/ Resume(p)

\* Two concurrent requests to the attachment text extractor.
Spec == Init /\ [][Next]_vars

InitHighlight == InitNoExtractor /\ InitHighlighter /\ InitNoChat /\ InitNoPage

NextHighlight ==
    \E p \in Calls :
        \/ HighlightCodeCall(p)
        \/ DetectLanguageCall(p)

\* Two calls of the code-language utility.
SpecHighlight == InitHighlight /\ [][NextHighlight]_vars

InitModules == InitOneExtractor /\ InitLoading /\ InitNoChat /\ InitNoPage

NextModules ==
    \/ RegisterLanguage
    \/ Next
    \/ NextHighlight

\* The highlight module from its loading on, with two calls of its exports
\* and an extractor call running in between.
SpecModules == InitModules /\ [][NextModules]_vars

InitRoute == InitNoExtractor /\ InitNoHighlighter /\ InitChat /\ InitNoPage

NextRoute ==
    \E p \in Calls :
        \/ POST(p)
        \/ AfterJson(p)

\* Two concurrent requests to the chat route.
SpecRoute == InitRoute /\ [][NextRoute]_vars

InitStream == InitNoExtractor /\ InitNoHighlighter /\ InitStreaming /\ InitNoPage

NextStream ==
    \E p \in Calls :
        \/ POST(p)
        \/ AfterJson(p)
        \/ StreamError(p)

\* Two requests whose streaming responses raise an error.
SpecStream == InitStream /\ [][NextStream]_vars

InitChatPage == InitNoExtractor /\ InitNoHighlighter /\ InitNoChat /\ InitPage

NextChatPage ==
    \/ \E ch \in Keys : HandleInputChange(ch)
    \/ HandleSubmit
    \/ StreamStarts
    \/ StreamEnds
    \/ RequestFails
    \/ Stop

\* The chat page, from its first render on.
SpecChatPage == InitChatPage /\ [][NextChatPage]_vars

(***************************************************************************)
(* Reading a result string back                                            *)
(***************************************************************************)
\* The positions of token tok in text, and the n-th of a set of positions.
PositionsOf(text, tok) == { k \in 1..Len(text) : text[k] = tok }
Nth(S, n) == CHOOSE k \in S : Cardinality({ x \in S : x < k }) = n - 1

PageMarker == "\n--- Page "
BlockHeader == "\n\nContent from PDF file \""
PlaceholderStart == "[Unable to extract PDF content. Error: "

\* The n-th part of text when it is cut at every occurrence of tok.
PartAt(text, tok, n) ==
    LET S == PositionsOf(text, tok)
        from == Nth(S, n)
        to == IF n < Cardinality(S) THEN Nth(S, n + 1) - 1 ELSE Len(text)
    IN  SubSeq(text, from, to)

Finished(p) == pc[p] \in {"returned", "rejected"}
Returned(p) == pc[p] = "returned"
IsPA(p) == arg[p].fn = "processAttachments"
IsEX(p) == arg[p].fn = "extractTextFromPDF"
IsListCall(p) == IsPA(p) /\ arg[p].v.t = "array"

(***************************************************************************)
(* C1                                                                      *)
(***************************************************************************)
\* C1: once processAttachments has been called with an argument that is
\* absent (null, undefined), not a list, or an empty list, the call has
\* returned the empty string and has made no call of the PDF extractor.
C1_EmptyInputReturnsEmptyString ==
    \A p \in Calls :
        (/\ IsPA(p)
         /\ pc[p] # "idle"
         /\ (arg[p].v.t # "array" \/ arg[p].v.items = <<>>))
        => /\ outcome[p] = Return(<<>>)
           /\ trace[p] = <<>>

\* A non-list argument and an empty list have both been processed.
C1_Witness ==
    /\ arg["c1"] = PA(Str(<<"not-a-list">>))
    /\ arg["c2"] = PA(Arr(<<>>))
    /\ Returned("c1")
    /\ Returned("c2")

(***************************************************************************)
(* C2                                                                      *)
(***************************************************************************)
\* The pages of the document a url leads to, when the url decodes and the
\* document opens; <<>> otherwise.
PagesOf(url) ==
    LET d == Decode(url)
    IN  IF d.kind = "throw" THEN <<>>
        ELSE IF ~GetDocument(d.v).ok THEN <<>>
        ELSE GetDocument(d.v).v.pages

\* A well-formed PDF data URL every page of which extracts successfully.
WellFormed(url) ==
    /\ PagesOf(url) # <<>>
    /\ \A k \in 1..Len(PagesOf(url)) :
           PagesOf(url)[k].getPage.ok /\ PagesOf(url)[k].getTextContent.ok

\* text is the fragments of items, in order, with one " " between any two.
JoinedBySingleSpaces(text, items) ==
    /\ Len(text) = (IF items = <<>> THEN 0 ELSE 2 * Len(items) - 1)
    /\ \A k \in 1..Len(text) :
           text[k] = (IF k % 2 = 1 THEN items[(k + 1) \div 2] ELSE " ")

\* text holds exactly Len(pages) page markers, numbered 1..N in ascending
\* order, each immediately followed by its page's joined fragments.
MarkedPages(text, pages) ==
    LET S == PositionsOf(text, PageMarker)
    IN  /\ Cardinality(S) = Len(pages)
        /\ Len(pages) > 0 => Nth(S, 1) = 1
        /\ \A n \in 1..Len(pages) :
               LET part == PartAt(text, PageMarker, n)
               IN  /\ Len(part) >= 4
                   /\ part[2] = ToStr(n)
                   /\ part[3] = " ---\n"
                   /\ part[Len(part)] = "\n"
                   /\ JoinedBySingleSpaces(SubSeq(part, 4, Len(part) - 1),
                                           pages[n].getTextContent.v)

\* C2: extractTextFromPDF of a well-formed PDF data URL of N pages, all of
\* which extract, returns a text with exactly N page markers
\* '--- Page i ---', i = 1..N ascending, each immediately followed by page
\* i's fragments joined by single spaces in source order.  This holds for
\* a direct call and for the text processAttachments awaits.
C2_PageMarkersInOrder ==
    \A p \in Calls :
        /\ (IsEX(p) /\ Finished(p) /\ WellFormed(arg[p].v))
           => /\ Returned(p)
              /\ MarkedPages(outcome[p].v, PagesOf(arg[p].v))
        /\ (IsListCall(p) /\ pc[p] = "await"
              /\ WellFormed(UrlOf(arg[p].v.items[idx[p]])))
           => MarkedPages(pdfText[p], PagesOf(UrlOf(arg[p].v.items[idx[p]])))

\* A direct extraction of the two-page document has returned.
C2_Witness ==
    /\ arg["c2"] = EX(UrlA)
    /\ Returned("c2")
    /\ Len(PagesOf(UrlA)) = 2
    /\ Cardinality(PositionsOf(outcome["c2"].v, PageMarker)) = 2

(***************************************************************************)
(* C3                                                                      *)
(***************************************************************************)
\* A PDF attachment whose url cannot be decoded: invalid base64, or no
\* data URL at all.
Undecodable(a) ==
    /\ a.t = "object"
    /\ a.contentType = PdfType
    /\ a.url \in {UrlBadBase64, UrlRemote}

\* A PDF attachment with a well-formed data URL.
WellFormedPdf(a) ==
    /\ a.t = "object"
    /\ a.contentType = PdfType
    /\ WellFormed(a.url)

\* The call's list is an undecodable and a well-formed PDF attachment;
\* good is the position of the well-formed one.
MixedPair(p, good) ==
    /\ IsListCall(p)
    /\ Len(arg[p].v.items) = 2
    /\ WellFormedPdf(arg[p].v.items[good])
    /\ Undecodable(arg[p].v.items[3 - good])

\* text holds a placeholder with a non-empty error description.
HasDiagnostic(text) ==
    \E k \in 1..Len(text) - 2 :
        /\ text[k] = PlaceholderStart
        /\ text[k + 1] \notin {"", "undefined"}
        /\ text[k + 2] = "]"

\* C3: processAttachments of an undecodable PDF attachment together with a
\* well-formed one, in either order, does not throw; its result holds a
\* non-empty diagnostic for the bad attachment (in that attachment's
\* block), and the block of the well-formed attachment is the very text
\* processAttachments returns for that attachment alone.
C3_BadAttachmentIsIsolated ==
    \A p \in Calls : \A good \in 1..2 :
        MixedPair(p, good) =>
            /\ pc[p] # "rejected"
            /\ Returned(p) =>
                 LET text == outcome[p].v
                     S == PositionsOf(text, BlockHeader)
                 IN  /\ Cardinality(S) = 2
                     /\ Nth(S, 1) = 1
                     /\ HasDiagnostic(PartAt(text, BlockHeader, 3 - good))
                     /\ ~HasDiagnostic(PartAt(text, BlockHeader, good))
                     /\ \A q \in Calls :
                            (/\ arg[q] = PA(Arr(<<arg[p].v.items[good]>>))
                             /\ Returned(q))
                            => PartAt(text, BlockHeader, good) = outcome[q].v

\* The bad attachment came first, the well-formed one second, and the
\* well-formed one has also been processed alone.
C3_Witness ==
    /\ MixedPair("c1", 2)
    /\ Returned("c1")
    /\ arg["c2"] = PA(Arr(<<arg["c1"].v.items[2]>>))
    /\ Returned("c2")
    /\ outcome["c2"].v # <<>>

(***************************************************************************)
(* C4                                                                      *)
(***************************************************************************)
\* C4: no exception or rejected promise leaves processAttachments or
\* extractTextFromPDF: whatever the list holds and whatever decoding or the
\* PDF library raises, every call completes by returning a string.
C4_NoExceptionEscapes ==
    \A p \in Calls : pc[p] # "rejected" /\ outcome[p].kind # "throw"

(***************************************************************************)
(* C5                                                                      *)
(***************************************************************************)
\* An attachment whose contentType is not 'application/pdf' (a value that
\* has no contentType included).
NotPdf(a) ==
    \/ a.t = "object" /\ a.contentType # PdfType
    \/ a.t = "string"

RECURSIVE WithoutNonPdf(_)
\* The list with every non-PDF attachment removed.
WithoutNonPdf(items) ==
    IF items = <<>> THEN <<>>
    ELSE IF NotPdf(Head(items)) THEN WithoutNonPdf(Tail(items))
    ELSE <<Head(items)>> \o WithoutNonPdf(Tail(items))

\* C5: a non-PDF attachment contributes nothing: two finished calls of
\* processAttachments whose lists agree once the non-PDF attachments are
\* removed have the same outcome, so the output for a list is the output
\* for the list without them and holds no text about them.
C5_NonPdfContributesNothing ==
    \A p, q \in Calls :
        (/\ IsListCall(p) /\ IsListCall(q)
         /\ Finished(p) /\ Finished(q)
         /\ WithoutNonPdf(arg[p].v.items) = WithoutNonPdf(arg[q].v.items))
        => outcome[p] = outcome[q]

\* A list with a non-PDF attachment ahead of a PDF, and the PDF alone,
\* have both been processed to a non-empty result.
C5_Witness ==
    /\ IsListCall("c1") /\ IsListCall("c2")
    /\ Len(arg["c1"].v.items) = 2
    /\ NotPdf(arg["c1"].v.items[1])
    /\ Truthy(UrlOf(arg["c1"].v.items[1]))
    /\ arg["c2"].v.items = <<arg["c1"].v.items[2]>>
    /\ Returned("c1") /\ Returned("c2")
    /\ outcome["c2"].v # <<>>

(***************************************************************************)
(* C6                                                                      *)
(***************************************************************************)
\* A processed PDF attachment: a PDF descriptor with a non-empty url.
IsProcessed(a) ==
    /\ a.t = "object"
    /\ a.contentType = PdfType
    /\ a.url.t = "string"
    /\ a.url.s # <<>>

\* The processed PDF attachments of a list, in the list's order.
ProcessedOf(items) == SelectSeq(items, IsProcessed)

\* C6: the result of processAttachments is exactly one labelled block per
\* processed PDF attachment, in the order of the input list: the k-th block
\* carries the k-th PDF attachment's name and is the text returned for that
\* attachment alone; attachments with the same name or url each get their
\* block.
C6_OneBlockPerPdfInOrder ==
    \A p \in Calls :
        (IsListCall(p) /\ Returned(p)) =>
            LET text == outcome[p].v
                done == ProcessedOf(arg[p].v.items)
                S == PositionsOf(text, BlockHeader)
            IN  /\ Cardinality(S) = Len(done)
                /\ (done = <<>>) => (text = <<>>)
                /\ (done # <<>>) => (Nth(S, 1) = 1)
                /\ \A k \in 1..Len(done) :
                       /\ PartAt(text, BlockHeader, k)[2] = done[k].name
                       /\ \A q \in Calls :
                              (arg[q] = PA(Arr(<<done[k]>>)) /\ Returned(q))
                              => PartAt(text, BlockHeader, k) = outcome[q].v

\* The same attachment twice in one list gave two blocks.
C6_WitnessDuplicate ==
    /\ IsListCall("c1")
    /\ Returned("c1")
    /\ Len(arg["c1"].v.items) = 2
    /\ arg["c1"].v.items[1] = arg["c1"].v.items[2]
    /\ IsProcessed(arg["c1"].v.items[1])
    /\ Cardinality(PositionsOf(outcome["c1"].v, BlockHeader)) = 2
    /\ arg["c2"] = PA(Arr(<<arg["c1"].v.items[2]>>))
    /\ Returned("c2")

(***************************************************************************)
(* C7                                                                      *)
(***************************************************************************)
\* C7 as stated: every processed PDF attachment's text is wrapped in a
\* header and a footer that both note the display name: the name stands in
\* the block ahead of the content and again after it.
C7_HeaderAndFooterNameAttachment ==
    \A p \in Calls :
        (IsListCall(p) /\ Returned(p)) =>
            LET text == outcome[p].v
                done == ProcessedOf(arg[p].v.items)
            IN  \A k \in 1..Len(done) :
                    LET block == PartAt(text, BlockHeader, k)
                    IN  /\ block[2] = done[k].name
                        /\ \E j \in 4..Len(block) : block[j] = done[k].name

\* C7 as amended: every processed PDF attachment's text is preceded by the
\* header 'Content from PDF file "<name>":' noting the display name and
\* followed by two line breaks only: the block is header, text, "\n\n",
\* where the text is what extractTextFromPDF returns for the url.
C7_HeaderNamesAttachmentFooterBlank ==
    \A p \in Calls :
        (IsListCall(p) /\ Returned(p)) =>
            LET text == outcome[p].v
                done == ProcessedOf(arg[p].v.items)
            IN  \A k \in 1..Len(done) :
                    LET block == PartAt(text, BlockHeader, k)
                    IN  /\ Len(block) >= 4
                        /\ SubSeq(block, 1, 3) = <<BlockHeader, done[k].name, "\":\n">>
                        /\ block[Len(block)] = "\n\n"
                        /\ \A q \in Calls :
                               (arg[q] = EX(done[k].url) /\ Returned(q))
                               => block = SubSeq(block, 1, 3) \o outcome[q].v \o <<"\n\n">>

\* A PDF attachment has been processed and its url extracted directly.
C7_Witness ==
    /\ arg["c1"] = PA(Arr(<<Att("a.pdf", PdfType, UrlA)>>))
    /\ Returned("c1")
    /\ arg["c2"] = EX(UrlA)
    /\ Returned("c2")
    /\ Len(outcome["c2"].v) > 0

(***************************************************************************)
(* C8                                                                      *)
(***************************************************************************)
HDone(p) == hpc[p] = "done"
IsHL(p) == hArg[p].fn = "highlightCode"
PlainText == Str(<<"plaintext">>)

\* C8: highlightCode never throws: for every code and every language
\* argument, also when rendering fails under the resolved grammar and
\* under the plain-text grammar, the call returns a string.
C8_HighlightCodeNeverThrows ==
    \A p \in Calls : (IsHL(p) /\ HDone(p)) => hOutcome[p].kind = "return"

(***************************************************************************)
(* C9                                                                      *)
(***************************************************************************)
IsHighlightEvent(e) == e[1] = "highlight"

\* The call rendered under a resolved language, and that rendering failed.
ResolvedRenderingFailed(p) ==
    LET hs == SelectSeq(hTrace[p], IsHighlightEvent)
    IN  /\ hs # <<>>
        /\ Highlight(languages, hArg[p].code, Str(<<hs[1][2]>>)).kind = "throw"

\* The call ends as rendering the same code under the plain-text grammar
\* ends, and reports no unknown language.
EndsAsPlainText(p) ==
    /\ hOutcome[p] = Highlight(languages, hArg[p].code, PlainText)
    /\ hOutcome[p] # Throw(Err("Error", "Unknown language"))

\* C9 as stated: with any language identifier that is absent from the
\* registry, or when rendering under the resolved grammar fails, the result
\* is the rendering of the code under the plain-text grammar.
C9_AbsentIdentifierFallsBack ==
    \A p \in Calls :
        (/\ IsHL(p) /\ HDone(p)
         /\ \/ (hArg[p].language.t = "string"
                  /\ KeyOf(hArg[p].language) \notin DOMAIN languages)
            \/ ResolvedRenderingFailed(p))
        => EndsAsPlainText(p)

\* C9 as amended: with a non-empty language identifier that is absent from
\* the registry, or when rendering under the resolved grammar fails, the
\* call ends as rendering the code under the plain-text grammar ends; an
\* unknown language is never reported.  (The empty identifier counts as
\* omitted: detection decides the grammar.)
C9_NonEmptyAbsentIdentifierFallsBack ==
    \A p \in Calls :
        (/\ IsHL(p) /\ HDone(p)
         /\ \/ (Truthy(hArg[p].language)
                  /\ KeyOf(hArg[p].language) \notin DOMAIN languages)
            \/ ResolvedRenderingFailed(p))
        => EndsAsPlainText(p)

\* An unregistered identifier, and a rendering that failed under the
\* detected grammar, both ended with the plain-text rendering.
C9_Witness ==
    /\ hArg["c1"] = HL(CodeJs, Str(<<"nosuchlang">>))
    /\ hArg["c2"] = HL(CodeTrap, Undefined)
    /\ HDone("c1") /\ HDone("c2")
    /\ ResolvedRenderingFailed("c2")
    /\ hOutcome["c1"].kind = "return"
    /\ hOutcome["c2"].kind = "return"

(***************************************************************************)
(* C10                                                                     *)
(***************************************************************************)
IsAutoEvent(e) == e[1] = "highlightAuto"

\* Detection was not consulted and the first rendering used the given
\* identifier.
UsedAsGiven(p) ==
    /\ SelectSeq(hTrace[p], IsAutoEvent) = <<>>
    /\ hTrace[p] # <<>>
    /\ hTrace[p][1] = <<"highlight", KeyOf(hArg[p].language)>>

\* highlightCode(code) and highlightCode(code, detectLanguage(code)) end
\* alike, and the call without identifier ran detection before rendering.
OmittedMeansDetected ==
    \A p, q \in Calls :
        (/\ IsHL(p) /\ IsHL(q) /\ HDone(p) /\ HDone(q)
         /\ hArg[p].code = hArg[q].code
         /\ hArg[p].language = Undefined
         /\ detectLanguage(languages, hArg[p].code) = Return(hArg[q].language))
        => /\ hOutcome[p] = hOutcome[q]
           /\ hTrace[p] = << <<"highlightAuto", "">> >> \o hTrace[q]

\* C10 as stated: without identifier, detection runs first and rendering
\* uses the detected language; with any identifier supplied, detection is
\* not consulted and the supplied identifier is the one used.
C10_SuppliedIdentifierIsUsed ==
    /\ OmittedMeansDetected
    /\ \A p \in Calls :
           (/\ IsHL(p) /\ HDone(p)
            /\ hArg[p].code.t = "string"
            /\ hArg[p].language.t = "string") => UsedAsGiven(p)

\* C10 as amended: without identifier, detection runs first and rendering
\* uses the detected language; with a non-empty identifier supplied,
\* detection is not consulted and the supplied identifier is the one used.
C10_NonEmptyIdentifierIsUsed ==
    /\ OmittedMeansDetected
    /\ \A p \in Calls :
           (IsHL(p) /\ HDone(p) /\ Truthy(hArg[p].language)) => UsedAsGiven(p)

\* The same code was highlighted without identifier and under the
\* identifier detection gives for it.
C10_Witness ==
    /\ hArg["c1"] = HL(CodeJs, Undefined)
    /\ hArg["c2"] = HL(CodeJs, Str(<<"javascript">>))
    /\ detectLanguage(languages, CodeJs) = Return(Str(<<"javascript">>))
    /\ HDone("c1") /\ HDone("c2")
    /\ hOutcome["c1"].kind = "return"

(***************************************************************************)
(* C11                                                                     *)
(***************************************************************************)
\* What the call's function gives for its arguments in a freshly loaded
\* module, before any other call.
FreshOutcome(a) ==
    IF a.fn = "highlightCode"
    THEN highlightCode(Registry, a.code, a.language).o
    ELSE detectLanguage(Registry, a.code)

IsDL(p) == hArg[p].fn = "detectLanguage"

\* C12: for every code string detectLanguage returns a non-empty identifier
\* that is one of the thirteen candidates or 'plaintext', and is registered;
\* it is 'plaintext' exactly when the classifier reports no language.
C12_DetectedLanguageIsRegistered ==
    /\ Candidates \cup {"plaintext"} \subseteq DOMAIN Registry
    /\ Cardinality(Candidates) = 13
    /\ \A p \in Calls :
           (IsDL(p) /\ HDone(p) /\ hArg[p].code.t = "string") =>
               /\ hOutcome[p].kind = "return"
               /\ hOutcome[p].v.t = "string"
               /\ Len(hOutcome[p].v.s) = 1
               /\ KeyOf(hOutcome[p].v) # ""
               /\ KeyOf(hOutcome[p].v) \in Candidates \cup {"plaintext"}
               /\ KeyOf(hOutcome[p].v) \in DOMAIN languages
               /\ hOutcome[p].v = PlainText <=>
                      HighlightAuto(languages, hArg[p].code, Candidates) = Return(Undefined)

\* detectLanguage has returned for prose and for JavaScript code.
C12_Witness ==
    /\ hArg["c1"] = DL(CodeProse) /\ HDone("c1") /\ hOutcome["c1"] = Return(PlainText)
    /\ hArg["c2"] = DL(CodeJs) /\ HDone("c2")
    /\ hOutcome["c2"] = Return(Str(<<"javascript">>))


(***************************************************************************)
(* C13                                                                     *)
(***************************************************************************)
\* The alias pairs: <<alias, full name>>.
AliasPairs ==
    { <<"js", "javascript">>, <<"yml", "yaml">>, <<"md", "markdown">>,
      <<"cs", "csharp">>, <<"c++", "cpp">>, <<"rs", "rust">>,
      <<"kt", "kotlin">>, <<"rb", "ruby">>, <<"docker", "dockerfile">>,
      <<"gql", "graphql">>, <<"tex", "latex">>, <<"objc", "objectivec">>,
      <<"pl", "perl">>, <<"text", "plaintext">>, <<"ps", "powershell">> }

\* C13: each listed alias is registered and maps to the grammar of its full
\* name, and highlightCode under the alias ends as highlightCode of the same
\* code under the full name: for the calls made, and for every code and pair.
C13_AliasesShareGrammar ==
    /\ \A pr \in AliasPairs :
           /\ pr[1] \in DOMAIN languages
           /\ pr[2] \in DOMAIN languages
           /\ languages[pr[1]] = languages[pr[2]]
           /\ \A c \in Codes :
                  highlightCode(languages, c, Str(<<pr[1]>>)).o
                      = highlightCode(languages, c, Str(<<pr[2]>>)).o
    /\ \A p, q \in Calls :
           (/\ IsHL(p) /\ IsHL(q) /\ HDone(p) /\ HDone(q)
            /\ hArg[p].code = hArg[q].code
            /\ <<KeyOf(hArg[p].language), KeyOf(hArg[q].language)>> \in AliasPairs)
           => hOutcome[p] = hOutcome[q]

\* The same code was highlighted under 'js' and under 'javascript'.
C13_Witness ==
    /\ hArg["c1"] = HL(CodeJs, Str(<<"js">>))
    /\ hArg["c2"] = HL(CodeJs, Str(<<"javascript">>))
    /\ HDone("c1") /\ HDone("c2")
    /\ hOutcome["c1"].kind = "return"
    /\ hTrace["c1"] = << <<"highlight", "js">> >>


(***************************************************************************)
(* C14                                                                     *)
(***************************************************************************)
Loaded == regIdx = Len(Registrations)

\* C14 as stated: the table built by the registration calls contains ts, sh
\* and bash, with ts mapped to the TypeScript grammar and sh and bash both
\* mapped to the same shell grammar.
C14_TsShBashRegistered ==
    Loaded =>
        /\ "ts" \in DOMAIN languages
        /\ languages["ts"] = "typescript"
        /\ "sh" \in DOMAIN languages
        /\ "bash" \in DOMAIN languages
        /\ languages["sh"] = languages["bash"]

\* C14 as amended: no registration call names ts, TypeScript being
\* registered as typescript only; the table contains sh, shell and bash,
\* with sh mapped to the grammar of shell and bash mapped to the separate
\* Bash grammar.
C14_ShIsShellBashIsBash ==
    /\ "ts" \notin DOMAIN languages
    /\ Loaded =>
           /\ {"typescript", "sh", "shell", "bash"} \subseteq DOMAIN languages
           /\ languages["typescript"] = "typescript"
           /\ languages["sh"] = "shell"
           /\ languages["sh"] = languages["shell"]
           /\ languages["bash"] = "bash"
           /\ languages["sh"] # languages["bash"]

\* The module body has just run: every registration call was made and no
\* export has been called yet.
C14_Witness ==
    /\ Loaded
    /\ "sh" \in DOMAIN languages
    /\ "bash" \in DOMAIN languages
    /\ \A p \in Calls : hpc[p] = "idle"


(***************************************************************************)
(* C15                                                                     *)
(***************************************************************************)
\* No export has run before the table is complete; the complete table is
\* the one the registration calls build, and it has a 'plaintext' entry.
BuiltBeforeFirstCall ==
    /\ regIdx \in 0..Len(Registrations)
    /\ \A p \in Calls : HDone(p) => Loaded
    /\ Loaded => (languages = Registry /\ "plaintext" \in DOMAIN languages)

\* Each registration call runs once, in order, and nothing writes the table
\* once the last one has run.
WrittenOnlyWhileLoading ==
    /\ regIdx' \in {regIdx, regIdx + 1}
    /\ languages' # languages => (~Loaded /\ regIdx' = regIdx + 1)
    /\ Loaded => (languages' = languages /\ regIdx' = regIdx)

\* C15: the registry is built exactly once, completely, before the first
\* call of detectLanguage or highlightCode can run; no call writes it
\* afterwards; its 'plaintext' entry is present in every state after
\* initialization.
C15_RegistryBuiltOnceThenReadOnly ==
    /\ []BuiltBeforeFirstCall
    /\ [][WrittenOnlyWhileLoading]_vars

\* After loading, a call given an unregistered identifier has fallen back
\* to plain text and the table is as the registration calls left it.
C15_Witness ==
    /\ Loaded
    /\ hArg["c1"] = HL(CodeJs, Str(<<"nosuchlang">>))
    /\ HDone("c1")
    /\ hTrace["c1"] = << <<"highlight", "nosuchlang">>, <<"highlight", "plaintext">> >>
    /\ languages = Registry


(***************************************************************************)
(* C16                                                                     *)
(***************************************************************************)
\* The locals of a call that has not started.
FreshCall ==
    [pc |-> "idle", idx |-> 0, bytes |-> <<>>, pdf |-> BlankDoc, pageNo |-> 0,
     fullText |-> <<>>, pdfText |-> <<>>, extractedContent |-> <<>>,
     outcome |-> Pending, trace |-> <<>>]

\* The locals of call p, as the state holds them.
LocalsOf(p) ==
    [pc |-> pc[p], idx |-> idx[p], bytes |-> bytes[p], pdf |-> pdf[p],
     pageNo |-> pageNo[p], fullText |-> fullText[p], pdfText |-> pdfText[p],
     extractedContent |-> extractedContent[p], outcome |-> outcome[p],
     trace |-> trace[p]]

\* One step of a call that runs alone: from one await to the next.
StepAlone(c, a) ==
    CASE c.pc = "idle" ->
             IF a.fn = "processAttachments"
             THEN processAttachments(c, a.v) ELSE extractTextFromPDF(c, a.v)
      [] c.pc = "open" -> AfterOpen(c, a.fn)
      [] c.pc = "getPage" -> AfterGetPage(c, a.fn)
      [] c.pc = "getTextContent" -> AfterGetTextContent(c, a.fn)
      [] c.pc = "await" -> AfterExtract(c, a.v.items)
      [] OTHER -> c

\* The state a call with argument a ends in when it runs alone from c on.
RECURSIVE RunAlone(_, _)
RunAlone(c, a) ==
    IF c.pc \in {"returned", "rejected"} THEN c ELSE RunAlone(StepAlone(c, a), a)

\* A finished call has the outcome it has when run alone.
EndsAsAlone == \A p \in Calls : Finished(p) => outcome[p] = RunAlone(FreshCall, arg[p]).outcome

\* Whatever the other call does in the step, a call's locals stay as they
\* are or move as the call moves when it runs alone.
MovesAsAlone ==
    \A p \in Calls :
        \/ LocalsOf(p)' = LocalsOf(p)
        \/ LocalsOf(p)' = StepAlone(LocalsOf(p), arg[p])

\* C16: concurrent calls, interleaved at every await, do not interfere:
\* every step leaves each call's locals where the same call running alone
\* has them, and a finished call has the outcome it has when run alone, so
\* no text of another call's attachments is in its result.
C16_ConcurrentCallsDoNotInterfere ==
    /\ []EndsAsAlone
    /\ [][MovesAsAlone]_vars

\* Both calls are in flight at once: the first has its attachment's text
\* and waits to resume, the second waits for the second page of its own.
C16_Witness ==
    /\ IsPA("c1") /\ IsPA("c2")
    /\ pc["c1"] = "await" /\ pdfText["c1"] # <<>>
    /\ pc["c2"] = "getPage" /\ pageNo["c2"] = 2 /\ fullText["c2"] # <<>>

(***************************************************************************)
(* C17                                                                     *)
(***************************************************************************)
\* The call is suspended inside an extraction, or on its result.
InExtraction(p) == pc[p] \in {"open", "getPage", "getTextContent", "await"}

IsExtractEvent(e) == e[1] = "extractTextFromPDF"

\* The extractions the call has started, and the labelled blocks it has.
StartedExtractions(p) == Len(SelectSeq(trace[p], IsExtractEvent))
BlocksOf(text) == Cardinality(PositionsOf(text, BlockHeader))

\* Every request in the call's trace directly follows the request whose
\* answer it needs: a document is opened on entering an extraction, page 1
\* is requested after the open, the text of page i after page i, and page
\* i + 1 after the text of page i.
RequestsInOrder(p) ==
    \A k \in 1..Len(trace[p]) :
        LET e == trace[p][k]
            before == IF k = 1 THEN <<"", "">> ELSE trace[p][k - 1]
        IN  /\ e[1] = "getDocument" => (before[1] = "extractTextFromPDF" /\ before[2] = e[2])
            /\ e = <<"getPage", "1">> => before[1] = "getDocument"
            /\ e[1] = "getTextContent" => before = <<"getPage", e[2]>>
            /\ \A i \in 2..Len(Digits) :
                   e = <<"getPage", ToStr(i)>> => before = <<"getTextContent", ToStr(i - 1)>>

\* While page i is awaited, the text of pages 1..i-1 and of no other page
\* has been obtained.
PagesOneAtATime(p) ==
    pc[p] \in {"getPage", "getTextContent"} =>
        /\ Cardinality(PositionsOf(fullText[p], PageMarker)) = pageNo[p] - 1
        /\ trace[p][Len(trace[p])][2] = ToStr(pageNo[p])

\* An extraction is started only when every earlier one has finished and
\* its block has been appended: at most one is unfinished.
AttachmentsOneAtATime(p) ==
    IsListCall(p) =>
        /\ StartedExtractions(p) - BlocksOf(extractedContent[p]) \in {0, 1}
        /\ InExtraction(p) => StartedExtractions(p) = BlocksOf(extractedContent[p]) + 1
        /\ pc[p] \in {"idle", "returned"} =>
               StartedExtractions(p) = BlocksOf(extractedContent[p])

\* C17: within one call extraction is strictly sequential: page i + 1 is
\* requested only after the text of page i has been obtained, the next
\* attachment's extraction starts only after the previous one has finished,
\* and never are two documents or two pages in progress.
C17_ExtractionIsSequential ==
    \A p \in Calls :
        /\ RequestsInOrder(p)
        /\ PagesOneAtATime(p)
        /\ AttachmentsOneAtATime(p)

\* The call waits for page 2 of its second document; the first document's
\* block is in the result.
C17_Witness ==
    /\ IsListCall("c1")
    /\ idx["c1"] = 2
    /\ pc["c1"] = "getPage" /\ pageNo["c1"] = 2
    /\ BlocksOf(extractedContent["c1"]) = 1
    /\ StartedExtractions("c1") = 2


(***************************************************************************)
(* C18                                                                     *)
(***************************************************************************)
\* The url decodes and the PDF library fails to open the document.
OpenFails(url) ==
    /\ Decode(url).kind = "return"
    /\ ~GetDocument(Decode(url).v).ok

\* The pages of the url's document at which extraction fails.
FailingPages(url) ==
    { k \in 1..Len(PagesOf(url)) :
        ~PagesOf(url)[k].getPage.ok \/ ~PagesOf(url)[k].getTextContent.ok }

ExtractionFails(url) == OpenFails(url) \/ FailingPages(url) # {}

\* The first failing page, 0 when the document does not open.
FailurePoint(url) ==
    IF FailingPages(url) = {} THEN 0
    ELSE CHOOSE k \in FailingPages(url) : \A j \in FailingPages(url) : k <= j

\* text is one placeholder and nothing else.
OnlyPlaceholder(text) ==
    /\ Len(text) = 3
    /\ text[1] = PlaceholderStart
    /\ text[3] = "]"
    /\ PositionsOf(text, PageMarker) = {}

\* No page after page k is requested in the extraction the trace ends with.
NoPageRequestedAfter(p, k) ==
    \A j \in 1..Len(Digits) :
        j > k => trace[p][Len(trace[p])] # <<"getPage", ToStr(j)>>

\* The n-th labelled block of text is the named block holding a placeholder.
PlaceholderBlock(text, n, name) ==
    /\ BlocksOf(text) >= n
    /\ LET part == PartAt(text, BlockHeader, n)
       IN  /\ Len(part) = 7
           /\ part[2] = name
           /\ OnlyPlaceholder(SubSeq(part, 4, 6))

\* C18: when document opening fails, or extraction fails at page k,
\* extractTextFromPDF returns only the placeholder: no page marker and no
\* text of the pages before k is in the result, no page after k is
\* requested, and processAttachments emits the attachment's labelled block
\* with the placeholder as its content.
C18_FailureGivesOnlyPlaceholder ==
    /\ \A p \in Calls :
           (IsEX(p) /\ Finished(p) /\ arg[p].v.t = "string" /\ ExtractionFails(arg[p].v)) =>
               /\ Returned(p)
               /\ OnlyPlaceholder(outcome[p].v)
               /\ NoPageRequestedAfter(p, FailurePoint(arg[p].v))
    /\ \A p \in Calls :
           (/\ IsListCall(p) /\ Finished(p)
            /\ \A k \in 1..Len(arg[p].v.items) : ~IsNullish(arg[p].v.items[k])) =>
               /\ Returned(p)
               /\ \A n \in 1..Len(ProcessedOf(arg[p].v.items)) :
                      LET a == ProcessedOf(arg[p].v.items)[n]
                      IN  ExtractionFails(a.url) =>
                              PlaceholderBlock(outcome[p].v, n, a.name)

\* C18 for failures that are Error objects (the case the null rejection of
\* C4 leaves intact).
C18_ErrorFailureGivesOnlyPlaceholder ==
    /\ \A p \in Calls :
           (/\ IsEX(p) /\ Finished(p) /\ arg[p].v.t = "string"
            /\ ExtractionFails(arg[p].v) /\ arg[p].v # UrlNullThrow) =>
               /\ Returned(p)
               /\ OnlyPlaceholder(outcome[p].v)
               /\ NoPageRequestedAfter(p, FailurePoint(arg[p].v))
    /\ \A p \in Calls :
           (/\ IsListCall(p) /\ Finished(p)
            /\ \A k \in 1..Len(arg[p].v.items) :
                   /\ ~IsNullish(arg[p].v.items[k])
                   /\ UrlOf(arg[p].v.items[k]) # UrlNullThrow) =>
               /\ Returned(p)
               /\ \A n \in 1..Len(ProcessedOf(arg[p].v.items)) :
                      LET a == ProcessedOf(arg[p].v.items)[n]
                      IN  ExtractionFails(a.url) =>
                              PlaceholderBlock(outcome[p].v, n, a.name)


(***************************************************************************)
(* C19                                                                     *)
(***************************************************************************)
\* A PDF attachment whose url is missing or empty.
UrlLess(a) ==
    /\ a.t = "object"
    /\ a.contentType = PdfType
    /\ ~Truthy(a.url)

RECURSIVE WithoutUrlLess(_)
\* The list with every PDF attachment without url removed.
WithoutUrlLess(items) ==
    IF items = <<>> THEN <<>>
    ELSE IF UrlLess(Head(items)) THEN WithoutUrlLess(Tail(items))
    ELSE <<Head(items)>> \o WithoutUrlLess(Tail(items))

\* C19: a PDF attachment whose url is missing or empty is skipped: the
\* extractor is not called for it, a finished call ends as the call on the
\* list without such attachments ends, and the number of labelled blocks
\* returned is the number of attachments of type application/pdf with a
\* non-empty url.
C19_PdfWithoutUrlIsSkipped ==
    \A p \in Calls :
        IsListCall(p) =>
            /\ \A k \in 1..Len(arg[p].v.items) :
                   UrlLess(arg[p].v.items[k]) =>
                       \A j \in 1..Len(trace[p]) :
                           trace[p][j] # <<"extractTextFromPDF", ToStr(k)>>
            /\ (Finished(p) /\ WithoutUrlLess(arg[p].v.items) # arg[p].v.items) =>
                   outcome[p] = RunAlone(FreshCall,
                                    PA(Arr(WithoutUrlLess(arg[p].v.items)))).outcome
            /\ Returned(p) =>
                   BlocksOf(outcome[p].v) = Len(ProcessedOf(arg[p].v.items))

\* A list of a PDF attachment without url and one with a url has returned
\* one labelled block.
C19_Witness ==
    /\ IsListCall("c1")
    /\ Len(arg["c1"].v.items) = 2
    /\ UrlLess(arg["c1"].v.items[1])
    /\ arg["c1"].v.items[1].url = Undefined
    /\ IsProcessed(arg["c1"].v.items[2])
    /\ Returned("c1")
    /\ BlocksOf(outcome["c1"].v) = 1

\* The same for an attachment whose url is the empty string.
C19_WitnessEmptyUrl ==
    /\ IsListCall("c1")
    /\ arg["c1"].v.items = << Att("a.pdf", PdfType, UrlA), Att("nourl.pdf", PdfType, UrlEmpty) >>
    /\ Returned("c1")
    /\ BlocksOf(outcome["c1"].v) = 1


(***************************************************************************)
(* C20                                                                     *)
(***************************************************************************)
Answered(p) == rpc[p] \in {"responded", "rejected"}

\* The response the handler gives to a request whose try block raised.
IsErrorResponse(o) ==
    /\ o.kind = "return"
    /\ o.v.t = "response"
    /\ o.v.status = 500
    /\ o.v.body # <<>>
    /\ o.v.body[1] = "Error: "

IsStreamResponse(o) == o = Return(Response(200, <<"data-stream">>))

\* C20: the chat POST handler never lets an exception escape: every failure
\* raised while reading the body, logging attachments or starting the model
\* stream, whatever value is thrown, is answered with status 500 and a body
\* starting with 'Error: '; otherwise the streaming response is returned;
\* every request gets one response.
C20_EveryRequestIsAnswered ==
    \A p \in Calls :
        Answered(p) =>
            /\ rpc[p] = "responded"
            /\ IF TryBlock(req[p]).kind = "throw"
               THEN IsErrorResponse(rOutcome[p])
               ELSE IsStreamResponse(rOutcome[p])

\* C20 for thrown values other than null and undefined.
C20_NonNullFailureIsAnswered ==
    \A p \in Calls :
        (Answered(p) /\ ~(TryBlock(req[p]).kind = "throw" /\ IsNullish(TryBlock(req[p]).v))) =>
            /\ rpc[p] = "responded"
            /\ IF TryBlock(req[p]).kind = "throw"
               THEN IsErrorResponse(rOutcome[p])
               ELSE IsStreamResponse(rOutcome[p])


(***************************************************************************)
(* C21                                                                     *)
(***************************************************************************)
\* The falsy values listed: null, undefined, '', 0 and false.
FalsyErrors == { Null, Undefined, Str(<<>>), NumOf(0), Bool(FALSE) }

\* A string with at least one character.
IsNonEmptyString(v) ==
    /\ v.t = "string"
    /\ \E k \in 1..Len(v.s) : v.s[k] # ""

\* The message the claim gives for a raised value.
ExpectedMessage(error) ==
    CASE error \in FalsyErrors -> Str(<<"Unknown error">>)
      [] error \notin FalsyErrors /\ error.t = "string" -> error
      [] error.t = "error" /\ error.message # "" -> Str(<<error.message>>)
      [] error.t = "error" /\ error.message = "" ->
             Str(<<"An error occurred while processing.">>)
      [] OTHER -> Str(<<"An unexpected error occurred.">>)

Statuses == {"ready", "submitted", "streaming", "error"}

\* C22: in every state of the chat page the status is one of ready,
\* submitted, streaming and error; the message input is enabled exactly when
\* the status is ready, the Stop control is present exactly when it is
\* submitted or streaming, and 'Thinking...' is present exactly when it is
\* submitted; so in status error the input is disabled and no Stop control
\* is offered.
C22_ControlsFollowStatus ==
    /\ status \in Statuses
    /\ ~screen.inputDisabled <=> status = "ready"
    /\ screen.stop <=> status \in {"submitted", "streaming"}
    /\ screen.thinking <=> status = "submitted"
    /\ status = "error" => (screen.inputDisabled /\ ~screen.stop)
    /\ screen.inputValue = input
    /\ screen.bubbles = messages

\* A request failed while the answer to the second message was streaming:
\* the page shows the messages, a disabled input and no Stop control.
C22_Witness ==
    /\ status = "error"
    /\ Len(messages) = 4
    /\ screen.inputDisabled
    /\ ~screen.stop
    /\ ~screen.thinking


=============================================================================
